---- MODULE Spec2Model ----
(***************************************************************************)
(* Work time tracker (src/src/main.rs, src/src/logic.rs,                   *)
(* src/src/storage.rs).                                                    *)
(*                                                                         *)
(* One CLI invocation loads the timesheet from the data file, runs one     *)
(* command (start, stop, today, week, month, anything else) and writes the *)
(* timesheet back when the command changed it.  Instants are integers      *)
(* (ticks); TicksPerDay ticks make a day.  Tick 0 is local midnight of     *)
(* the day numbered EpochDays (days since 1970-01-01) for a zero offset.   *)
(* Every read of the system clock is a free choice among Instants: the     *)
(* wall clock can be set between two reads.  Failures of the file system   *)
(* (open, write, no home directory) are left out.  Spec is the tool, one   *)
(* invocation after another; LibSpec calls the functions of logic.rs and   *)
(* storage.rs; ConcSpec runs two invocations at the same time.             *)
(***************************************************************************)
EXTENDS Integers, Sequences, FiniteSets, TLC

\* ---------------------------------------------------------------- bounds
\* Largest instant the clock returns.
MaxTime == 1
\* Longest period list: a stop is run only while the loaded list is shorter.
MaxPeriods == 2
\* Ticks per calendar day.
TicksPerDay == 1
\* Largest offset (ticks) of local time east of UTC.
MaxOffset == 0
\* Day number (days since 1970-01-01) of tick 0: 2023-12-31, a Sunday.
EpochDays == 19722
\* Number of consecutive local dates, from EpochDays on, the window functions
\* are called on in LibSpec: through February 2024 (29 days), two Decembers
\* and February 2025 (28 days).
CalDays == 450

Instants == 0..MaxTime
Offsets == 0..MaxOffset

Max(a, b) == IF a >= b THEN a ELSE b
Min(a, b) == IF a <= b THEN a ELSE b

\* ------------------------------------------------------------- data model
\* struct Period { start, end }
Period(s, e) == [start |-> s, end |-> e]

\* struct TimeSheet { periods: Vec<Period>, active_period_start: Option }
\* Option<DateTime> is a sequence of length 0 (None) or 1 (Some).
None == << >>
Some(x) == << x >>
is_some(o) == Len(o) = 1
TimeSheet(ps, a) == [periods |-> ps, active_period_start |-> a]

\* TimeSheet::default()
DefaultTimeSheet == TimeSheet(<< >>, None)

\* An overlap without the comparison of its two bounds.
overlap_unclamped(self, other) ==
    LET overlap_start == Max(self.start, other.start)
        overlap_end   == Min(self.end, other.end)
    IN  overlap_end - overlap_start

\* An overlap that always ends at the end of self.
overlap_self_end(self, other) ==
    LET overlap_start == Max(self.start, other.start)
        overlap_end   == self.end
    IN  IF overlap_start < overlap_end THEN overlap_end - overlap_start ELSE 0

\* Period::overlap
overlap(self, other) ==
    LET overlap_start == Max(self.start, other.start)
        overlap_end   == Min(self.end, other.end)
    IN  IF overlap_start < overlap_end
        THEN overlap_end - overlap_start
        ELSE 0

\* --------------------------------------------------------------- the file
\* The data file is absent, or holds a sequence of JSON tokens.
\* to_writer_pretty writes the struct as an object with its two fields in
\* declaration order; a DateTime is written as one string token.
Absent == [exists |-> FALSE, toks |-> << >>]
Content(toks) == [exists |-> TRUE, toks |-> toks]

P(k) == [k |-> k, n |-> 0]
TsTok(n) == [k |-> "ts", n |-> n]
EOFTok == P("<eof>")

RECURSIVE PeriodsToks(_)
\* A period list of which only the newest period is written.
RECURSIVE PeriodsToks_newest(_)
PeriodsToks_newest(ps) ==
    IF ps = << >> THEN << >>
    ELSE IF Tail(ps) # << >> THEN PeriodsToks_newest(Tail(ps))
    ELSE << P("{"), P("start"), TsTok(Head(ps).start),
            P("end"), TsTok(Head(ps).end), P("}") >>

PeriodsToks(ps) ==
    IF ps = << >> THEN << >>
    ELSE << P("{"), P("start"), TsTok(Head(ps).start),
            P("end"), TsTok(Head(ps).end), P("}") >> \o PeriodsToks(Tail(ps))

\* An active_period_start that is never written out.
OptionToks_null(o) == << P("null") >>

OptionToks(o) == IF is_some(o) THEN << TsTok(o[1]) >> ELSE << P("null") >>

\* serde_json::to_writer_pretty(writer, time_sheet)
to_writer_pretty(ts) ==
    << P("{"), P("periods"), P("[") >> \o PeriodsToks(ts.periods)
       \o << P("]"), P("active_period_start") >>
       \o OptionToks(ts.active_period_start) \o << P("}") >>

\* serde_json::from_reader: the value read, or the error's category.  An
\* input that ends where a token is still expected is an Eof error, an
\* unexpected token (or one after the value) is a Syntax error.
Tok(toks, i) == IF i > Len(toks) THEN EOFTok ELSE toks[i]
Bad(toks, i) == IF i > Len(toks) THEN "eof" ELSE "syntax"
ParseResult(st, i, v) == [st |-> st, i |-> i, v |-> v]

\* First position in i..i+Len(ks)-1 whose token's kind differs from ks, or 0.
RECURSIVE Mismatch(_, _, _)
Mismatch(toks, i, ks) ==
    IF ks = << >> THEN 0
    ELSE IF Tok(toks, i).k # Head(ks) THEN i
    ELSE Mismatch(toks, i + 1, Tail(ks))

RECURSIVE ParsePeriods(_, _, _)
ParsePeriods(toks, i, acc) ==
    IF Tok(toks, i).k = "]" THEN ParseResult("ok", i + 1, acc)
    ELSE LET m == Mismatch(toks, i, << "{", "start", "ts", "end", "ts", "}" >>)
         IN  IF m # 0 THEN ParseResult(Bad(toks, m), m, acc)
             ELSE ParsePeriods(toks, i + 6,
                      Append(acc, Period(toks[i + 2].n, toks[i + 4].n)))

from_reader(toks) ==
    LET m == Mismatch(toks, 1, << "{", "periods", "[" >>)
    IN  IF m # 0 THEN ParseResult(Bad(toks, m), m, DefaultTimeSheet)
        ELSE
        LET ps == ParsePeriods(toks, 4, << >>)
        IN  IF ps.st # "ok" THEN ParseResult(ps.st, ps.i, DefaultTimeSheet)
            ELSE
            LET j == ps.i
                a == Tok(toks, j + 1)
            IN  IF Tok(toks, j).k # "active_period_start"
                THEN ParseResult(Bad(toks, j), j, DefaultTimeSheet)
                ELSE IF a.k \notin {"ts", "null"}
                THEN ParseResult(Bad(toks, j + 1), j + 1, DefaultTimeSheet)
                ELSE IF Tok(toks, j + 2).k # "}"
                THEN ParseResult(Bad(toks, j + 2), j + 2, DefaultTimeSheet)
                ELSE IF j + 2 < Len(toks)
                THEN ParseResult("syntax", j + 3, DefaultTimeSheet)
                ELSE ParseResult("ok", j + 3,
                         TimeSheet(ps.v, IF a.k = "ts" THEN Some(a.n) ELSE None))

\* Error::is_eof
is_eof(r) == r.st = "eof"

\* load_or_create_timesheet / load_timesheet: Ok(time_sheet) or Err.
LoadOk(ts) == [ok |-> TRUE, ts |-> ts]
LoadErr == [ok |-> FALSE, ts |-> DefaultTimeSheet]

load_timesheet(f) ==
    IF ~f.exists THEN LoadOk(DefaultTimeSheet)
    ELSE LET r == from_reader(f.toks)
         IN  IF r.st = "ok" THEN LoadOk(r.v)
             ELSE IF is_eof(r) THEN LoadOk(DefaultTimeSheet)
             ELSE LoadErr

\* ---------------------------------------------------------- session logic
\* logic.rs start_tracking: Err("Already tracking time.") or Ok(()), with the
\* timesheet as the call leaves it.  now is the value Utc::now() returns.
\* A start that succeeds whether or not a session is active.
start_tracking_always(time_sheet, now) ==
    [ok |-> TRUE, ts |-> [time_sheet EXCEPT !.active_period_start = Some(now)]]

start_tracking(time_sheet, now) ==
    IF is_some(time_sheet.active_period_start)
    THEN [ok |-> FALSE, ts |-> time_sheet]
    ELSE [ok |-> TRUE, ts |-> [time_sheet EXCEPT !.active_period_start = Some(now)]]

\* A stop that builds the period with its two instants exchanged.
stop_tracking_swapped(time_sheet, now) ==
    IF is_some(time_sheet.active_period_start)
    THEN LET start_time == time_sheet.active_period_start[1]
             end_time   == now
             new_period == Period(end_time, start_time)
         IN  [ret |-> Some(end_time - start_time),
              ts  |-> TimeSheet(Append(time_sheet.periods, new_period), None)]
    ELSE [ret |-> None, ts |-> time_sheet]

\* logic.rs stop_tracking: Some(duration) or None, with the timesheet as the
\* call leaves it (Option::take clears active_period_start).
stop_tracking(time_sheet, now) ==
    IF is_some(time_sheet.active_period_start)
    THEN LET start_time == time_sheet.active_period_start[1]
             end_time   == now
             new_period == Period(start_time, end_time)
         IN  [ret |-> Some(end_time - start_time),
              ts  |-> TimeSheet(Append(time_sheet.periods, new_period), None)]
    ELSE [ret |-> None, ts |-> time_sheet]

\* main.rs start_tracking: Ok(state_changed), the timesheet, what is printed.
Out(msg, at, dur) == [msg |-> msg, at |-> at, dur |-> dur]
NoOut == Out("", 0, 0)

\* A start that restarts the session it finds.
cli_start_tracking_restarts(time_sheet, now) ==
    [changed |-> TRUE,
     ts |-> [time_sheet EXCEPT !.active_period_start = Some(now)],
     out |-> Out("started", now, 0)]

cli_start_tracking(time_sheet, now) ==
    IF is_some(time_sheet.active_period_start)
    THEN [changed |-> FALSE, ts |-> time_sheet,
          out |-> Out("already", time_sheet.active_period_start[1], 0)]
    ELSE [changed |-> TRUE,
          ts |-> [time_sheet EXCEPT !.active_period_start = Some(now)],
          out |-> Out("started", now, 0)]

\* A stop that puts the new period first.
cli_stop_tracking_prepends(time_sheet, now) ==
    IF is_some(time_sheet.active_period_start)
    THEN LET start_time == time_sheet.active_period_start[1]
             end_time   == now
             new_period == Period(start_time, end_time)
             duration   == end_time - start_time
         IN  [changed |-> TRUE,
              ts |-> TimeSheet(<< new_period >> \o time_sheet.periods, None),
              out |-> Out("stopped", end_time, duration)]
    ELSE [changed |-> FALSE, ts |-> time_sheet, out |-> Out("no_active", 0, 0)]

\* A stop that records an empty period when nothing is active.
cli_stop_tracking_records_idle(time_sheet, now) ==
    IF is_some(time_sheet.active_period_start)
    THEN LET start_time == time_sheet.active_period_start[1]
         IN  [changed |-> TRUE,
              ts |-> TimeSheet(Append(time_sheet.periods, Period(start_time, now)), None),
              out |-> Out("stopped", now, now - start_time)]
    ELSE [changed |-> TRUE,
          ts |-> TimeSheet(Append(time_sheet.periods, Period(now, now)), None),
          out |-> Out("no_active", 0, 0)]

\* main.rs stop_tracking
cli_stop_tracking(time_sheet, now) ==
    IF is_some(time_sheet.active_period_start)
    THEN LET start_time == time_sheet.active_period_start[1]
             end_time   == now
             new_period == Period(start_time, end_time)
             duration   == end_time - start_time
         IN  [changed |-> TRUE,
              ts |-> TimeSheet(Append(time_sheet.periods, new_period), None),
              out |-> Out("stopped", end_time, duration)]
    ELSE [changed |-> FALSE, ts |-> time_sheet, out |-> Out("no_active", 0, 0)]

\* --------------------------------------------------------------- calendar
\* chrono's proleptic Gregorian calendar, by day number since 1970-01-01.
NaiveDate(y, m, d) == [year |-> y, month |-> m, day |-> d]

DaysFromCivil(date) ==
    LET y   == IF date.month <= 2 THEN date.year - 1 ELSE date.year
        era == y \div 400
        yoe == y - era * 400
        mp  == IF date.month > 2 THEN date.month - 3 ELSE date.month + 9
        doy == (153 * mp + 2) \div 5 + date.day - 1
        doe == yoe * 365 + yoe \div 4 - yoe \div 100 + doy
    IN  era * 146097 + doe - 719468

CivilFromDays(z) ==
    LET zz  == z + 719468
        era == zz \div 146097
        doe == zz - era * 146097
        yoe == (doe - doe \div 1460 + doe \div 36524 - doe \div 146096) \div 365
        doy == doe - (365 * yoe + yoe \div 4 - yoe \div 100)
        mp  == (5 * doy + 2) \div 153
        d   == doy - (153 * mp + 2) \div 5 + 1
        m   == IF mp < 10 THEN mp + 3 ELSE mp - 9
        y   == yoe + era * 400
    IN  NaiveDate(IF m <= 2 THEN y + 1 ELSE y, m, d)

\* Days since the Sunday on or before the date: a Sunday-first week.
num_days_from_sunday(date) == (DaysFromCivil(date) + 4) % 7

\* Weekday::num_days_from_monday (1970-01-01 was a Thursday)
num_days_from_monday(date) == (DaysFromCivil(date) + 3) % 7

\* A NaiveDateTime is a number of ticks of local wall-clock time since local
\* midnight of EpochDays.  Local::now() for clock reading now and offset off.
LocalNow(now, off) == now + off
\* NaiveDateTime::date_naive / DateTime<Local>::date_naive
date_naive(naive_dt) == CivilFromDays(EpochDays + naive_dt \div TicksPerDay)
\* NaiveDate::and_hms_opt(0, 0, 0)
and_hms_0(date) == (DaysFromCivil(date) - EpochDays) * TicksPerDay
\* NaiveDate - Duration::days(n)
SubDays(date, n) == CivilFromDays(DaysFromCivil(date) - n)

\* What Local.from_local_datetime answers for one naive time: a single
\* instant (at some offset), two instants, or none.  It is an input.
Single(off) == [kind |-> "Single", off |-> off]
Ambiguous == [kind |-> "Ambiguous", off |-> 0]
NoLocal == [kind |-> "None", off |-> 0]
LocalResults == {Single(o) : o \in Offsets} \cup {Ambiguous, NoLocal}

\* A conversion that settles an ambiguous time on its first candidate.
naive_to_utc_guesses(naive_dt, lr) ==
    IF lr.kind \in {"Single", "Ambiguous"}
    THEN [ok |-> TRUE, v |-> naive_dt - lr.off]
    ELSE [ok |-> FALSE, v |-> 0]

\* naive_to_utc: Ok(instant) or Err
naive_to_utc(naive_dt, lr) ==
    IF lr.kind = "Single" THEN [ok |-> TRUE, v |-> naive_dt - lr.off]
    ELSE [ok |-> FALSE, v |-> 0]

\* The tail of the three get_*_period functions: both boundaries converted,
\* the start first, each with `?`.
WindowOk(p) == [ok |-> TRUE, period |-> p]
WindowErr == [ok |-> FALSE, period |-> Period(0, 0)]

ConvertBoth(start_naive, end_naive, lrs, lre) ==
    LET s == naive_to_utc(start_naive, lrs)
        e == naive_to_utc(end_naive, lre)
    IN  IF ~s.ok THEN WindowErr
        ELSE IF ~e.ok THEN WindowErr
        ELSE WindowOk(Period(s.v, e.v))

get_today_period(now_local, lrs, lre) ==
    LET today_local_naive == date_naive(now_local)
        start_naive == and_hms_0(today_local_naive)
        end_naive   == start_naive + TicksPerDay
    IN  ConvertBoth(start_naive, end_naive, lrs, lre)

get_week_period(now_local, lrs, lre) ==
    LET today_local_naive == date_naive(now_local)
        days_from_monday  == num_days_from_monday(today_local_naive)
        start_of_week_naive == SubDays(today_local_naive, days_from_monday)
        start_naive == and_hms_0(start_of_week_naive)
        end_naive   == start_naive + 7 * TicksPerDay
    IN  ConvertBoth(start_naive, end_naive, lrs, lre)

\* A month window whose end stays in the year of its start.
get_month_period_same_year(now_local, lrs, lre) ==
    LET today_local_naive == date_naive(now_local)
        start_of_month_naive ==
            NaiveDate(today_local_naive.year, today_local_naive.month, 1)
        start_naive == and_hms_0(start_of_month_naive)
        next == IF today_local_naive.month = 12
                THEN << today_local_naive.year, 1 >>
                ELSE << today_local_naive.year, today_local_naive.month + 1 >>
        start_of_next_month_naive == NaiveDate(next[1], next[2], 1)
        end_naive == and_hms_0(start_of_next_month_naive)
    IN  ConvertBoth(start_naive, end_naive, lrs, lre)

get_month_period(now_local, lrs, lre) ==
    LET today_local_naive == date_naive(now_local)
        start_of_month_naive ==
            NaiveDate(today_local_naive.year, today_local_naive.month, 1)
        start_naive == and_hms_0(start_of_month_naive)
        next == IF today_local_naive.month = 12
                THEN << today_local_naive.year + 1, 1 >>
                ELSE << today_local_naive.year, today_local_naive.month + 1 >>
        start_of_next_month_naive == NaiveDate(next[1], next[2], 1)
        end_naive == and_hms_0(start_of_next_month_naive)
    IN  ConvertBoth(start_naive, end_naive, lrs, lre)

\* --------------------------------------------------------------- reporting
\* A sum that counts a period stored twice only once.
RECURSIVE SumOverlap_dedup(_, _)
SumOverlap_dedup(ps, w) ==
    IF ps = << >> THEN 0
    ELSE IF \E i \in 2..Len(ps) : ps[i] = Head(ps)
    THEN SumOverlap_dedup(Tail(ps), w)
    ELSE overlap(Head(ps), w) + SumOverlap_dedup(Tail(ps), w)

\* The iterator chain periods.iter().map(|p| p.overlap(w)).sum()
RECURSIVE SumOverlap(_, _)
SumOverlap(ps, w) ==
    IF ps = << >> THEN 0 ELSE overlap(Head(ps), w) + SumOverlap(Tail(ps), w)

\* A total that takes the whole active session, whatever the window.
calculate_unclipped(time_sheet, reporting_period, now) ==
    LET completed_duration == SumOverlap(time_sheet.periods, reporting_period)
        active_duration ==
            IF is_some(time_sheet.active_period_start)
            THEN now - time_sheet.active_period_start[1]
            ELSE 0
    IN  completed_duration + active_duration

\* calculate_tracked_time_in_period; now is the value Utc::now() returns.
calculate_tracked_time_in_period(time_sheet, reporting_period, now) ==
    LET completed_duration == SumOverlap(time_sheet.periods, reporting_period)
        active_duration ==
            IF is_some(time_sheet.active_period_start)
            THEN overlap(Period(time_sheet.active_period_start[1], now),
                         reporting_period)
            ELSE 0
    IN  completed_duration + active_duration

\* ------------------------------------------------------------ input sets
PeriodSet == [start : Instants, end : Instants]
PeriodSeqs(n) == UNION {[1..k -> PeriodSet] : k \in 0..n}
Options == {None} \cup {Some(t) : t \in Instants}
Sheets(n) == {TimeSheet(ps, a) : ps \in PeriodSeqs(n), a \in Options}
Prefixes(s) == {SubSeq(s, 1, k) : k \in 0..Len(s)}

\* What the data file can hold when the tool is first run: nothing, what an
\* earlier save wrote, a save cut short, or text that is no timesheet.
InitToks == UNION {Prefixes(to_writer_pretty(ts)) : ts \in Sheets(1)}
InitFiles == {Absent} \cup {Content(t) : t \in InitToks}
                      \cup {Content(t \o << P("junk") >>) : t \in InitToks}

Commands == {"start", "stop", "today", "week", "month", "other"}
Reports == {"today", "week", "month"}

\* ------------------------------------------------------------------ state
VARIABLES
    file,             \* the data file ~/.work_time_tracker.json
    pc,               \* where the running invocation of main is
    command,          \* args[1]
    time_sheet,       \* main's working copy
    state_changed,    \* main's flag
    reporting_period, \* the window report_summary resolved
    out,              \* what the command printed
    status,           \* main's result: "running", "ok" (Ok(())), "err" (Err)
    saved,            \* "State saved." was printed
    file0,            \* history: the file when the invocation began
    ts0,              \* history: the timesheet as loaded
    local_results,    \* history: what from_local_datetime answered (start, end)
    lib,              \* the last call of a logic.rs function and its result
    other,            \* a second invocation of the tool, run at the same time
    reads             \* history: the clock readings report_summary took

vars == << file, pc, command, time_sheet, state_changed, reporting_period,
           out, status, saved, file0, ts0, local_results, lib, other, reads >>

NoPeriod == Period(0, 0)
LibCall(fn, a, b, sheet, now, ret) ==
    [fn |-> fn, a |-> a, b |-> b, sheet |-> sheet, now |-> now, ret |-> ret]
NoCall == LibCall("", NoPeriod, NoPeriod, DefaultTimeSheet, 0, 0)
NoLocalResults == << >>
\* The second invocation: where it is, its command, its working copy and flag,
\* what it printed, the file and the timesheet as it loaded them (history),
\* whether it printed "State saved.", and whether the first invocation had
\* finished its save when this one finished its own (history).
Invocation(at, cmd, ts, changed, o, svd, f0, t0, after) ==
    [pc |-> at, command |-> cmd, time_sheet |-> ts, state_changed |-> changed,
     out |-> o, saved |-> svd, file0 |-> f0, ts0 |-> t0, after |-> after]
NotRun == Invocation("idle", "", DefaultTimeSheet, FALSE, NoOut, FALSE,
                     Absent, DefaultTimeSheet, FALSE)

Init ==
    /\ file \in InitFiles
    /\ pc = "idle"
    /\ command = ""
    /\ time_sheet = DefaultTimeSheet
    /\ state_changed = FALSE
    /\ reporting_period = NoPeriod
    /\ out = NoOut
    /\ status = "ok"
    /\ saved = FALSE
    /\ file0 = file
    /\ ts0 = DefaultTimeSheet
    /\ local_results = NoLocalResults
    /\ lib = NoCall
    /\ other = NotRun
    /\ reads = << >>

\* main with args.len() != 2: prints the usage and returns before loading.
MainNoArgs ==
    /\ pc = "idle"
    /\ pc' = "exit"
    /\ command' = ""
    /\ time_sheet' = DefaultTimeSheet
    /\ state_changed' = FALSE
    /\ reporting_period' = NoPeriod
    /\ out' = Out("usage", 0, 0)
    /\ status' = "ok"
    /\ saved' = FALSE
    /\ file0' = file
    /\ ts0' = DefaultTimeSheet
    /\ local_results' = NoLocalResults
    /\ UNCHANGED << file, lib, other, reads >>

\* main up to the match: load_or_create_timesheet()?
MainLoad(cmd) ==
    /\ pc = "idle"
    /\ LET l == load_timesheet(file)
       IN  /\ (cmd = "stop" /\ l.ok) => Len(l.ts.periods) < MaxPeriods
           /\ time_sheet' = l.ts
           /\ ts0' = l.ts
           /\ pc' = IF l.ok THEN "dispatch" ELSE "exit"
           /\ status' = IF l.ok THEN "running" ELSE "err"
           /\ out' = IF l.ok THEN NoOut ELSE Out("error", 0, 0)
    /\ command' = cmd
    /\ state_changed' = FALSE
    /\ reporting_period' = NoPeriod
    /\ saved' = FALSE
    /\ file0' = file
    /\ local_results' = NoLocalResults
    /\ UNCHANGED << file, lib, other, reads >>

\* "start" => state_changed = start_tracking(&mut time_sheet)?  When the
\* command leaves state_changed false, main skips the save and returns Ok(()).
DoStart ==
    /\ pc = "dispatch" /\ command = "start"
    /\ \E now \in Instants :
         LET r == cli_start_tracking(time_sheet, now)
         IN  /\ time_sheet' = r.ts
             /\ state_changed' = r.changed
             /\ out' = r.out
             /\ pc' = IF r.changed THEN "save" ELSE "exit"
             /\ status' = IF r.changed THEN status ELSE "ok"
    /\ UNCHANGED << file, command, reporting_period, saved, file0, ts0, local_results, lib, other, reads >>

\* "stop" => state_changed = stop_tracking(&mut time_sheet)?
DoStop ==
    /\ pc = "dispatch" /\ command = "stop"
    /\ \E now \in Instants :
         LET r == cli_stop_tracking(time_sheet, now)
         IN  /\ time_sheet' = r.ts
             /\ state_changed' = r.changed
             /\ out' = r.out
             /\ pc' = IF r.changed THEN "save" ELSE "exit"
             /\ status' = IF r.changed THEN status ELSE "ok"
    /\ UNCHANGED << file, command, reporting_period, saved, file0, ts0, local_results, lib, other, reads >>

\* report_summary's match on the ReportingPeriod
ResolveWindow(kind, now_local, lrs, lre) ==
    IF kind = "today" THEN get_today_period(now_local, lrs, lre)
    ELSE IF kind = "week" THEN get_week_period(now_local, lrs, lre)
    ELSE get_month_period(now_local, lrs, lre)

\* "today" | "week" | "month" => report_summary(&time_sheet, ..)?
\* Two clock reads: Local::now() in get_*_period, Utc::now() in
\* calculate_tracked_time_in_period.  The `?` on the start conversion returns
\* before the end is converted, and a failed resolution before the clock is
\* read again: an answer never asked for is fixed, not drawn.  Utc::now() is
\* inside the map_or closure, so it is read only when a session is active.
DoReport ==
    /\ pc = "dispatch" /\ command \in Reports
    /\ \E now1 \in Instants, off \in Offsets, lrs \in LocalResults,
          lre \in LocalResults, now2 \in Instants :
         LET w == ResolveWindow(command, LocalNow(now1, off), lrs, lre)
             start_ok == naive_to_utc(0, lrs).ok
             active == is_some(time_sheet.active_period_start)
         IN  /\ ~start_ok => lre = lrs
             /\ (~w.ok \/ ~active) => now2 = 0
             /\ reads' = IF w.ok /\ active THEN << now1, now2 >>
                                           ELSE << now1 >>
             /\ local_results' = IF start_ok THEN << lrs, lre >> ELSE << lrs >>
             /\ IF w.ok
                THEN /\ reporting_period' = w.period
                     /\ out' = Out("total", 0,
                           calculate_tracked_time_in_period(time_sheet, w.period, now2))
                     /\ pc' = "exit"
                     /\ status' = "ok"
                ELSE /\ reporting_period' = NoPeriod
                     /\ out' = Out("error", 0, 0)
                     /\ pc' = "exit"
                     /\ status' = "err"
    /\ UNCHANGED << file, command, time_sheet, state_changed, saved, file0,
                    ts0, lib, other >>

\* An unknown command that marks the state changed.
DoUnknown_marks_changed ==
    /\ pc = "dispatch" /\ command \notin {"start", "stop"} \cup Reports
    /\ out' = Out("usage", 0, 0)
    /\ state_changed' = TRUE
    /\ pc' = "save"
    /\ UNCHANGED << file, command, time_sheet, reporting_period, status,
                    saved, file0, ts0, local_results, lib, other, reads >>

\* _ => print_usage()
DoUnknown ==
    /\ pc = "dispatch" /\ command \notin {"start", "stop"} \cup Reports
    /\ out' = Out("usage", 0, 0)
    /\ pc' = "exit"
    /\ status' = "ok"
    /\ UNCHANGED << file, command, time_sheet, state_changed, reporting_period,
                    saved, file0, ts0, local_results, lib, other, reads >>

\* if state_changed { save_timesheet(..) }: OpenOptions ... truncate(true)
\* .create(true).open(&path) leaves the file empty.
SaveOpen ==
    /\ pc = "save" /\ state_changed
    /\ file' = Content(<< >>)
    /\ pc' = "write"
    /\ UNCHANGED << command, time_sheet, state_changed, reporting_period, out,
                    status, saved, file0, ts0, local_results, lib, other, reads >>

\* The length of a token's text.  A DateTime<Utc> is written with its
\* sub-second digits only as far as they are not zero, so the texts of two
\* instants need not be equally long: odd instants stand for the longer ones.
Width(tok) == IF tok.k = "ts" /\ tok.n % 2 # 0 THEN 2 ELSE 1

RECURSIVE ByteLen(_)
ByteLen(toks) ==
    IF toks = << >> THEN 0 ELSE Width(Head(toks)) + ByteLen(Tail(toks))

\* What is left of a file's content beyond its first n bytes; a token cut in
\* the middle leaves a fragment.
RECURSIVE DropBytes(_, _)
DropBytes(toks, n) ==
    IF toks = << >> \/ n = 0 THEN toks
    ELSE IF Width(Head(toks)) <= n
         THEN DropBytes(Tail(toks), n - Width(Head(toks)))
         ELSE << P("junk") >> \o Tail(toks)

\* The write of the BufWriter's buffer through a file opened without append:
\* it starts at offset 0 and replaces what is there; what lies beyond the
\* written length stays (nothing, unless another process wrote since the
\* truncation).
WriteAt0(old, new) == new \o DropBytes(old, ByteLen(new))

\* to_writer_pretty(writer, time_sheet), println!("State saved."), Ok(())
SaveWrite ==
    /\ pc = "write"
    /\ file' = Content(WriteAt0(file.toks, to_writer_pretty(time_sheet)))
    /\ saved' = TRUE
    /\ status' = "ok"
    /\ pc' = "exit"
    /\ UNCHANGED << command, time_sheet, state_changed, reporting_period, out,
                    file0, ts0, local_results, lib, other, reads >>

\* main has returned and the process is gone; the next invocation starts
\* with nothing but the file.
MainReturn ==
    /\ pc = "exit"
    /\ pc' = "idle"
    /\ command' = ""
    /\ time_sheet' = DefaultTimeSheet
    /\ state_changed' = FALSE
    /\ reporting_period' = NoPeriod
    /\ out' = NoOut
    /\ status' = "ok"
    /\ saved' = FALSE
    /\ file0' = file
    /\ ts0' = DefaultTimeSheet
    /\ local_results' = NoLocalResults
    /\ reads' = << >>
    /\ UNCHANGED << file, lib, other >>

Next ==
    \/ MainNoArgs
    \/ \E cmd \in Commands : MainLoad(cmd)
    \/ DoStart
    \/ DoStop
    \/ DoReport
    \/ DoUnknown
    \/ SaveOpen
    \/ SaveWrite
    \/ MainReturn

Spec == Init /\ [][Next]_vars

\* ------------------------------------------- two invocations at the same time
\* ConcSpec runs the tool twice against the same data file, each invocation
\* once, with start or stop, their steps interleaved in every order.  The
\* first invocation is main's variables, the second is `other`, stepping as
\* main does.
ConcCommands == {"start", "stop"}
ConcFiles ==
    {Absent} \cup {Content(to_writer_pretty(ts)) : ts \in Sheets(1)}

ConcInit ==
    /\ file \in ConcFiles
    /\ pc = "idle"
    /\ command = ""
    /\ time_sheet = DefaultTimeSheet
    /\ state_changed = FALSE
    /\ reporting_period = NoPeriod
    /\ out = NoOut
    /\ status = "ok"
    /\ saved = FALSE
    /\ file0 = file
    /\ ts0 = DefaultTimeSheet
    /\ local_results = NoLocalResults
    /\ lib = NoCall
    /\ other = NotRun
    /\ reads = << >>

\* main up to the match, in the second invocation
OtherLoad(cmd) ==
    /\ other.pc = "idle"
    /\ LET l == load_timesheet(file)
       IN  /\ (cmd = "stop" /\ l.ok) => Len(l.ts.periods) < MaxPeriods
           /\ other' = Invocation(IF l.ok THEN "dispatch" ELSE "exit", cmd,
                                  l.ts, FALSE,
                                  IF l.ok THEN NoOut ELSE Out("error", 0, 0),
                                  FALSE, file, l.ts, FALSE)
    /\ UNCHANGED << file, pc, command, time_sheet, state_changed,
                    reporting_period, out, status, saved, file0, ts0,
                    local_results, lib, reads >>

\* "start" | "stop" in the second invocation
OtherCommand ==
    /\ other.pc = "dispatch"
    /\ \E now \in Instants :
         LET r == IF other.command = "start"
                  THEN cli_start_tracking(other.time_sheet, now)
                  ELSE cli_stop_tracking(other.time_sheet, now)
         IN  other' = [other EXCEPT !.time_sheet = r.ts,
                                    !.state_changed = r.changed,
                                    !.out = r.out,
                                    !.pc = IF r.changed THEN "save" ELSE "exit"]
    /\ UNCHANGED << file, pc, command, time_sheet, state_changed,
                    reporting_period, out, status, saved, file0, ts0,
                    local_results, lib, reads >>

\* save_timesheet's open(&path) in the second invocation
OtherSaveOpen ==
    /\ other.pc = "save" /\ other.state_changed
    /\ file' = Content(<< >>)
    /\ other' = [other EXCEPT !.pc = "write"]
    /\ UNCHANGED << pc, command, time_sheet, state_changed, reporting_period,
                    out, status, saved, file0, ts0, local_results, lib, reads >>

\* to_writer_pretty and "State saved." in the second invocation
OtherSaveWrite ==
    /\ other.pc = "write"
    /\ file' = Content(WriteAt0(file.toks, to_writer_pretty(other.time_sheet)))
    /\ other' = [other EXCEPT !.pc = "exit", !.saved = TRUE, !.after = saved]
    /\ UNCHANGED << pc, command, time_sheet, state_changed, reporting_period,
                    out, status, saved, file0, ts0, local_results, lib, reads >>

ConcNext ==
    \/ \E cmd \in ConcCommands : MainLoad(cmd)
    \/ DoStart
    \/ DoStop
    \/ SaveOpen
    \/ SaveWrite
    \/ \E cmd \in ConcCommands : OtherLoad(cmd)
    \/ OtherCommand
    \/ OtherSaveOpen
    \/ OtherSaveWrite

ConcSpec == ConcInit /\ [][ConcNext]_vars

\* ------------------------------------------------- the library, call by call
\* logic.rs is also a library (lib.rs).  LibSpec calls its pure functions on
\* arguments drawn from bounded sets, one call per behaviour; the tool itself
\* stays where it started.
LibTimes == 0..(MaxTime + 1)
LibPeriods == [start : LibTimes, end : LibTimes]
LibSeqs(n) == UNION {[1..k -> LibPeriods] : k \in 0..n}
LibOptions == {Some(t) : t \in LibTimes}
\* Timesheets without an active session, and with one.
LibIdleSheets == {TimeSheet(ps, None) : ps \in LibSeqs(MaxPeriods)}
LibTrackingSheets ==
    {TimeSheet(ps, a) : ps \in LibSeqs(MaxPeriods - 1), a \in LibOptions}

mainvars == << file, pc, command, time_sheet, state_changed, reporting_period,
               out, status, saved, file0, ts0, local_results, other, reads >>

LibInit ==
    /\ file = Absent
    /\ pc = "idle"
    /\ command = ""
    /\ time_sheet = DefaultTimeSheet
    /\ state_changed = FALSE
    /\ reporting_period = NoPeriod
    /\ out = NoOut
    /\ status = "ok"
    /\ saved = FALSE
    /\ file0 = file
    /\ ts0 = DefaultTimeSheet
    /\ local_results = NoLocalResults
    /\ lib = NoCall
    /\ other = NotRun
    /\ reads = << >>

\* a.overlap(&b)
CallOverlap ==
    /\ lib = NoCall
    /\ \E a \in LibPeriods, b \in LibPeriods :
         lib' = LibCall("overlap", a, b, DefaultTimeSheet, 0, overlap(a, b))
    /\ UNCHANGED mainvars

\* calculate_tracked_time_in_period(&sheet, &w), Utc::now() returning now
CallCalculate ==
    /\ lib = NoCall
    /\ \E sheet \in LibIdleSheets \cup LibTrackingSheets,
          w \in LibPeriods, now \in LibTimes :
         lib' = LibCall("calculate", NoPeriod, w, sheet, now,
                        calculate_tracked_time_in_period(sheet, w, now))
    /\ UNCHANGED mainvars

\* start_tracking at t0 on an idle sheet, stop_tracking at t1, then
\* calculate_tracked_time_in_period(&sheet, &w)
CallSession ==
    /\ lib = NoCall
    /\ \E ps \in LibSeqs(MaxPeriods - 1), t0 \in LibTimes, t1 \in LibTimes,
          w \in LibPeriods, now \in LibTimes :
         LET started == start_tracking(TimeSheet(ps, None), t0)
             stopped == stop_tracking(started.ts, t1)
         IN  lib' = LibCall("session", Period(t0, t1), w, stopped.ts, now,
                        calculate_tracked_time_in_period(stopped.ts, w, now))
    /\ UNCHANGED mainvars

\* get_week_period() and get_month_period() with Local::now() at local time
\* now_local and from_local_datetime answering Single at offsets os and oe.
\* The call record keeps the window in a, the two offsets in b, now_local in
\* now.
CalTimes == 0..(CalDays * TicksPerDay - 1)
CalCall(fn, w, os, oe, now_local) ==
    LibCall(fn, w.period, Period(os, oe), DefaultTimeSheet, now_local,
            IF w.ok THEN 1 ELSE 0)

CallWeek ==
    /\ lib = NoCall
    /\ \E now_local \in CalTimes, os \in Offsets, oe \in Offsets :
         lib' = CalCall("week",
                        get_week_period(now_local, Single(os), Single(oe)),
                        os, oe, now_local)
    /\ UNCHANGED mainvars

CallMonth ==
    /\ lib = NoCall
    /\ \E now_local \in CalTimes, os \in Offsets, oe \in Offsets :
         lib' = CalCall("month",
                        get_month_period(now_local, Single(os), Single(oe)),
                        os, oe, now_local)
    /\ UNCHANGED mainvars

\* storage::save_timesheet(&sheet): the caller's timesheet is time_sheet, the
\* data file is file.
CallSave ==
    /\ lib = NoCall
    /\ \E sheet \in LibIdleSheets \cup LibTrackingSheets :
         /\ time_sheet' = sheet
         /\ file' = Content(to_writer_pretty(sheet))
         /\ lib' = LibCall("save", NoPeriod, NoPeriod, sheet, 0, 0)
    /\ UNCHANGED << pc, command, state_changed, reporting_period, out, status,
                    saved, file0, ts0, local_results, other, reads >>

\* storage::load_timesheet() of the file a save_timesheet() left; the call
\* record keeps the timesheet returned.
CallLoad ==
    /\ lib.fn = "save"
    /\ LET l == load_timesheet(file)
       IN  lib' = LibCall("load", NoPeriod, NoPeriod, l.ts, 0,
                          IF l.ok THEN 1 ELSE 0)
    /\ UNCHANGED mainvars

LibNext ==
    \/ CallOverlap
    \/ CallCalculate
    \/ CallSession
    \/ CallWeek
    \/ CallMonth
    \/ CallSave
    \/ CallLoad

LibSpec == LibInit /\ [][LibNext]_vars

\* ================================================================ claims
\* The invocation ran command cmd on a timesheet it loaded, and is past it.
Ran(cmd) == command = cmd /\ pc \in {"save", "write", "exit"} /\ status # "err"
Tracking(ts) == is_some(ts.active_period_start)

\* C1: start on a timesheet that is already Tracking reports the
\* already-tracking condition and changes nothing: active_period_start keeps
\* its original instant, periods is unchanged, nothing is saved, and there is
\* at most one active session.  Both start_tracking functions (main.rs, and
\* logic.rs for every clock reading) behave so.
C1_StartWhileTracking ==
    (Ran("start") /\ Tracking(ts0)) =>
        /\ out.msg = "already"
        /\ out.at = ts0.active_period_start[1]
        /\ time_sheet.active_period_start = ts0.active_period_start
        /\ time_sheet.periods = ts0.periods
        /\ Len(time_sheet.active_period_start) <= 1
        /\ ~state_changed /\ ~saved /\ file = file0
        /\ \A now \in Instants :
              LET r == start_tracking(ts0, now)
              IN  ~r.ok /\ r.ts = ts0

C1_Witness ==
    /\ Ran("start") /\ pc = "exit" /\ Tracking(ts0)
    /\ ts0.periods # << >>
    /\ out.msg = "already"
    /\ \E now \in Instants : now # ts0.active_period_start[1]

\* C2: stop on a Tracking timesheet with recorded start S, the clock reading
\* N, clears active_period_start, appends exactly one period {S, N} as the
\* last element of periods, leaves the stored periods unchanged and in place,
\* and returns (prints) the duration N - S.
C2_StopAppends ==
    (Ran("stop") /\ Tracking(ts0)) =>
        LET S == ts0.active_period_start[1]
            N == out.at
            n == Len(ts0.periods)
        IN  /\ out.msg = "stopped"
            /\ N \in Instants
            /\ time_sheet.active_period_start = None
            /\ Len(time_sheet.periods) = n + 1
            /\ time_sheet.periods[n + 1] = Period(S, N)
            /\ \A i \in 1..n : time_sheet.periods[i] = ts0.periods[i]
            /\ out.dur = N - S
            /\ LET r == stop_tracking(ts0, N)
               IN  r.ret = Some(N - S) /\ r.ts = time_sheet

C2_Witness ==
    /\ Ran("stop") /\ pc = "exit" /\ Tracking(ts0) /\ saved
    /\ Len(ts0.periods) >= 1
    /\ ts0.periods[1] # Period(ts0.active_period_start[1], out.at)
    /\ out.dur > 0

\* C3: stop on an Idle timesheet reports the no-active-session condition and
\* changes nothing: no period is appended, periods is unchanged and
\* active_period_start stays absent; nothing is saved.
C3_StopWhileIdle ==
    (Ran("stop") /\ ~Tracking(ts0)) =>
        /\ out.msg = "no_active"
        /\ time_sheet.periods = ts0.periods
        /\ time_sheet.active_period_start = None
        /\ ~state_changed /\ ~saved /\ file = file0
        /\ \A now \in Instants :
              LET r == stop_tracking(ts0, now)
              IN  r.ret = None /\ r.ts = ts0

C3_Witness ==
    /\ Ran("stop") /\ pc = "exit" /\ ~Tracking(ts0)
    /\ ts0.periods # << >>
    /\ out.msg = "no_active"

\* C4: an invocation writes the data file if and only if it performed a
\* successful start or a successful stop.  The reports, an unknown command,
\* start while Tracking, stop while Idle, a missing argument and a failed load
\* leave the file as it was when the invocation began; a finished save leaves
\* the working copy in the file; and the working copy is at most one
\* transition away from the loaded timesheet.
Succeeded == out.msg \in {"started", "stopped"}
Started(a, b) ==
    /\ ~Tracking(a) /\ Tracking(b) /\ b.periods = a.periods
Stopped(a, b) ==
    /\ Tracking(a) /\ ~Tracking(b)
    /\ Len(b.periods) = Len(a.periods) + 1
    /\ SubSeq(b.periods, 1, Len(a.periods)) = a.periods
    /\ b.periods[Len(b.periods)].start = a.active_period_start[1]

C4_SaveIffChanged ==
    /\ pc = "exit" => (saved <=> Succeeded)
    /\ pc \in {"save", "write"} => Succeeded
    /\ (pc # "write" /\ ~saved) => file = file0
    /\ saved => (pc = "exit" /\ file = Content(to_writer_pretty(time_sheet)))
    /\ Succeeded => (command \in {"start", "stop"} /\ time_sheet # ts0)
    /\ \/ time_sheet = ts0
       \/ Started(ts0, time_sheet) /\ out.msg = "started"
       \/ Stopped(ts0, time_sheet) /\ out.msg = "stopped"

C4_Witness ==
    /\ pc = "exit" /\ command \in Reports /\ out.msg = "total" /\ out.dur > 0
    /\ ~saved /\ file = file0 /\ Tracking(ts0) /\ ts0.periods # << >>

\* C5: load returns the empty timesheet when the file is absent or empty, the
\* stored timesheet when the file holds a complete one, and fails for every
\* other content (a timesheet cut short included), the invocation ending
\* without touching the file.  The code does not do this: see LoadFailed.
Loaded == pc # "idle" /\ command # ""
LoadFailed ==
    pc = "exit" /\ status = "err" /\ local_results = NoLocalResults
Complete(f) == \E ts \in Sheets(MaxPeriods) : f.toks = to_writer_pretty(ts)

C5_LoadFailsOnPartialFile ==
    Loaded =>
        IF ~file0.exists \/ file0.toks = << >>
        THEN ~LoadFailed /\ ts0 = DefaultTimeSheet
        ELSE IF Complete(file0)
        THEN ~LoadFailed /\ file0.toks = to_writer_pretty(ts0)
        ELSE LoadFailed /\ file = file0 /\ ~saved

\* C6: when from_local_datetime answers Ambiguous or None for a boundary of
\* the window, the report ends with an error: no window, no total, the file
\* untouched.  When it answers Single for both, the report prints a total for
\* a window whose boundaries are those local midnights at the answered
\* offsets.
Resolved == pc = "exit" /\ command \in Reports /\ local_results # NoLocalResults
ConversionFailed ==
    \E i \in 1..Len(local_results) : local_results[i].kind # "Single"

C6_ConversionFailureAborts ==
    Resolved =>
        IF ConversionFailed
        THEN /\ status = "err"
             /\ out.msg = "error"
             /\ reporting_period = NoPeriod
             /\ file = file0 /\ ~saved
        ELSE /\ Len(local_results) = 2
             /\ status = "ok"
             /\ out.msg = "total"
             /\ (reporting_period.start + local_results[1].off) % TicksPerDay = 0
             /\ (reporting_period.end + local_results[2].off) % TicksPerDay = 0

C6_Witness ==
    /\ Resolved /\ command = "week" /\ Tracking(ts0)
    /\ local_results = << Single(0), Ambiguous >>
    /\ status = "err"

\* C7: overlap(A, B) is the number of time units t with A.start <= t < A.end
\* and B.start <= t < B.end, for every A and B, start > end included: never
\* negative, zero when either interval has start > end, zero when
\* A.end <= B.start, and overlap(A, A) = A.end - A.start when
\* A.start <= A.end.
Within(t, p) == p.start <= t /\ t < p.end

C7_OverlapIsIntersection ==
    lib.fn = "overlap" =>
        LET A == lib.a
            B == lib.b
        IN  /\ lib.ret = Cardinality({t \in LibTimes : Within(t, A) /\ Within(t, B)})
            /\ lib.ret >= 0
            /\ (A.start > A.end \/ B.start > B.end) => lib.ret = 0
            /\ A.end <= B.start => lib.ret = 0
            /\ (A = B /\ A.start <= A.end) => lib.ret = A.end - A.start

C7_Witness ==
    /\ lib.fn = "overlap"
    /\ lib.a.start < lib.b.start /\ lib.b.start < lib.a.end
    /\ lib.ret = lib.a.end - lib.b.start /\ lib.ret > 0

\* C8: for a Tracking timesheet with active start T0 queried at instant now
\* against window W, the total is the sum over the completed periods plus,
\* once, overlap({T0, now}, W): now - T0 when W.start <= T0 <= now <= W.end,
\* cut at W.end when now lies after the window, at W.start when T0 lies
\* before it, and zero when now <= T0.
C8_ActiveContribution ==
    (lib.fn = "calculate" /\ Tracking(lib.sheet)) =>
        LET T0 == lib.sheet.active_period_start[1]
            now == lib.now
            W == lib.b
            active == lib.ret - SumOverlap(lib.sheet.periods, W)
        IN  /\ active = overlap(Period(T0, now), W)
            /\ active = Cardinality({t \in LibTimes :
                                       T0 <= t /\ t < now /\ Within(t, W)})
            /\ (W.start <= T0 /\ T0 <= now /\ now <= W.end) => active = now - T0
            /\ (W.start <= T0 /\ T0 <= W.end /\ W.end < now) => active = W.end - T0
            /\ (T0 < W.start /\ W.start <= now /\ now <= W.end) => active = now - W.start
            /\ (T0 < W.start /\ W.start <= W.end /\ W.end < now) => active = W.end - W.start
            /\ now <= T0 => active = 0

C8_Witness ==
    /\ lib.fn = "calculate" /\ Tracking(lib.sheet)
    /\ lib.sheet.periods # << >>
    /\ SumOverlap(lib.sheet.periods, lib.b) > 0
    /\ lib.b.start <= lib.sheet.active_period_start[1]
    /\ lib.sheet.active_period_start[1] < lib.b.end
    /\ lib.b.end < lib.now

\* C9 as stated: after start at T0 on an Idle timesheet and stop at T0 + d,
\* the period {T0, T0 + d} is stored and the total for any window that
\* contains T0 is at least d.
C9_AnyWindowContainingStart ==
    lib.fn = "session" =>
        LET T0 == lib.a.start
            d == lib.a.end - lib.a.start
            W == lib.b
        IN  /\ lib.sheet.periods[Len(lib.sheet.periods)] = Period(T0, T0 + d)
            /\ Within(T0, W) => lib.ret >= d

\* C9 amended: ... and the total for any window that contains T0 and does not
\* end before T0 + d is at least d.
C9_WindowContainingSession ==
    lib.fn = "session" =>
        LET T0 == lib.a.start
            d == lib.a.end - lib.a.start
            W == lib.b
        IN  /\ lib.sheet.periods[Len(lib.sheet.periods)] = Period(T0, T0 + d)
            /\ ~Tracking(lib.sheet)
            /\ (Within(T0, W) /\ T0 + d <= W.end) => lib.ret >= d

C9_Witness ==
    /\ lib.fn = "session"
    /\ lib.a.end - lib.a.start = 2
    /\ Within(lib.a.start, lib.b) /\ lib.a.end <= lib.b.end
    /\ Len(lib.sheet.periods) = 1
    /\ lib.ret = 2

\* C10: without an active session the total over a fixed window is additive
\* over concatenation of period lists, total(P1 ++ P2) = total(P1) +
\* total(P2), and does not depend on the order of the periods.
Total(ps, w) == calculate_tracked_time_in_period(TimeSheet(ps, None), w, 0)
Perms(n) == {f \in [1..n -> 1..n] : \A i, j \in 1..n : i # j => f[i] # f[j]}

C10_Additive ==
    (lib.fn = "calculate" /\ ~Tracking(lib.sheet)) =>
        LET ps == lib.sheet.periods
            n == Len(ps)
            W == lib.b
        IN  /\ \A k \in 0..n :
                  lib.ret = Total(SubSeq(ps, 1, k), W) + Total(SubSeq(ps, k + 1, n), W)
            /\ \A f \in Perms(n) : Total([i \in 1..n |-> ps[f[i]]], W) = lib.ret

C10_Witness ==
    /\ lib.fn = "calculate" /\ ~Tracking(lib.sheet)
    /\ Len(lib.sheet.periods) = 2
    /\ lib.sheet.periods[1] = lib.sheet.periods[2]
    /\ overlap(lib.sheet.periods[1], lib.b) = 1
    /\ lib.ret = 2

\* C11: for every local date the week window starts at local midnight of the
\* Monday on or before that date (the date itself on a Monday, six days
\* earlier on a Sunday, never a later day) and ends exactly seven days after
\* its start, so the date lies inside the window.
\* The local day number of a window boundary answered at offset off.
LocalDay(t, off) == EpochDays + (t + off) \div TicksPerDay
AtMidnight(t, off) == (t + off) % TicksPerDay = 0
\* Day numbers of Mondays: 1970-01-05 was one.
IsMonday(day) == (day - 4) % 7 = 0
IsSunday(day) == (day - 3) % 7 = 0

C11_WeekStartsMonday ==
    lib.fn = "week" =>
        LET today == EpochDays + lib.now \div TicksPerDay
            first == LocalDay(lib.a.start, lib.b.start)
            last  == LocalDay(lib.a.end, lib.b.end)
        IN  /\ lib.ret = 1
            /\ AtMidnight(lib.a.start, lib.b.start)
            /\ AtMidnight(lib.a.end, lib.b.end)
            /\ IsMonday(first)
            /\ first <= today /\ today - first <= 6
            /\ IsMonday(today) => first = today
            /\ IsSunday(today) => first = today - 6
            /\ last = first + 7
            /\ today < last

C11_Witness ==
    /\ lib.fn = "week"
    /\ date_naive(lib.now) = NaiveDate(2024, 3, 3)
    /\ LocalDay(lib.a.start, lib.b.start) = DaysFromCivil(NaiveDate(2024, 2, 26))

\* C12: for every local date (y, m, any day) the month window starts at local
\* midnight of the 1st of month m of year y and ends at local midnight of the
\* 1st of the following month, January 1 of y + 1 when m = 12; its length is
\* the calendar length of month m (28, 29, 30 or 31 days).
IsLeap(y) == (y % 4 = 0 /\ y % 100 # 0) \/ y % 400 = 0
MonthLength(y, m) ==
    IF m = 2 THEN (IF IsLeap(y) THEN 29 ELSE 28)
    ELSE IF m \in {4, 6, 9, 11} THEN 30
    ELSE 31

C12_MonthWindow ==
    lib.fn = "month" =>
        LET today == date_naive(lib.now)
            first == LocalDay(lib.a.start, lib.b.start)
            last  == LocalDay(lib.a.end, lib.b.end)
        IN  /\ lib.ret = 1
            /\ AtMidnight(lib.a.start, lib.b.start)
            /\ AtMidnight(lib.a.end, lib.b.end)
            /\ CivilFromDays(first) = NaiveDate(today.year, today.month, 1)
            /\ CivilFromDays(last) =
                 IF today.month < 12
                 THEN NaiveDate(today.year, today.month + 1, 1)
                 ELSE NaiveDate(today.year + 1, 1, 1)
            /\ last - first = MonthLength(today.year, today.month)
            /\ first <= EpochDays + lib.now \div TicksPerDay
            /\ EpochDays + lib.now \div TicksPerDay < last

C12_Witness ==
    /\ lib.fn = "month"
    /\ date_naive(lib.now) = NaiveDate(2024, 12, 31)
    /\ CivilFromDays(LocalDay(lib.a.end, lib.b.end)) = NaiveDate(2025, 1, 1)

\* C13: saving a timesheet and then loading it returns an equal timesheet: the
\* same periods in the same order with the same instants and the same
\* active_period_start, for an empty period list, for Idle and for Tracking.
C13_SaveLoadRoundTrip ==
    lib.fn = "load" => (lib.ret = 1 /\ lib.sheet = time_sheet)

C13_Witness ==
    /\ lib.fn = "load"
    /\ lib.sheet = time_sheet
    /\ Tracking(time_sheet)
    /\ Len(time_sheet.periods) = 1
    /\ time_sheet.periods[1].start # time_sheet.periods[1].end

\* C14: overlap is commutative: overlap(A, B) = overlap(B, A) for all periods
\* A and B, those with start > end included.
C14_OverlapCommutes ==
    lib.fn = "overlap" => lib.ret = overlap(lib.b, lib.a)

C14_Witness ==
    /\ lib.fn = "overlap"
    /\ lib.a.end > lib.b.end
    /\ lib.a.start <= lib.b.start
    /\ lib.ret > 0
    /\ lib.ret = overlap(lib.b, lib.a)

\* C15: every period that stop appends satisfies start <= end, whatever
\* instants the clock returned at the start and at the stop invocation.  The
\* code does not establish this: stop stores {S, N} for the recorded start S
\* and the clock reading N without comparing them, and the clock is the wall
\* clock, which can be set back between the two invocations.
C15_AppendedPeriodOrdered ==
    (Ran("stop") /\ Tracking(ts0)) =>
        LET p == time_sheet.periods[Len(time_sheet.periods)]
        IN  p.start <= p.end

\* C16: save replaces the persisted state atomically: a load by another
\* invocation at any point during a save observes the complete prior file or
\* the complete new one, never an empty or partial file.  The code does not do
\* this: save_timesheet truncates the file in place and writes afterwards, and
\* a load between the two reads the empty file as the empty timesheet.
C16_LoadSeesPriorOrNew ==
    (pc = "write" /\ other.pc = "dispatch") =>
        /\ other.file0 \in {file0, Content(to_writer_pretty(time_sheet))}
        /\ other.ts0 \in {ts0, time_sheet}

\* C17: when two invocations load the same persisted timesheet and both change
\* and save it, the file ends as exactly the working copy of the invocation
\* whose save finished last, with no merging: one transition away from the
\* loaded timesheet (two stops leave one appended period, not two), the
\* earlier writer's change gone.  The code does not do this when the two
\* saves interleave and the texts differ in length: both write in place, and
\* the tail of the longer text stays behind the shorter one written last.
BothSaved ==
    /\ pc = "exit" /\ saved
    /\ other.pc = "exit" /\ other.saved
    /\ ts0 = other.ts0
LastSaved == IF other.after THEN other.time_sheet ELSE time_sheet

C17_LastWriterWins ==
    BothSaved =>
        /\ file = Content(to_writer_pretty(LastSaved))
        /\ load_timesheet(file) = LoadOk(LastSaved)
        /\ command = other.command
        /\ command = "start" => Started(ts0, LastSaved)
        /\ command = "stop" =>
              /\ Stopped(ts0, LastSaved)
              /\ Len(LastSaved.periods) = Len(ts0.periods) + 1

\* C18: a report uses one snapshot of the current time: the clock reading that
\* determines the local date of the window and the one that ends the clipped
\* active session are the same reading.  The code does not do this: the window
\* comes from Local::now() and the active session is ended at a later
\* Utc::now().
C18_OneClockReading ==
    (pc = "exit" /\ command \in Reports /\ out.msg = "total") =>
        \A i \in DOMAIN reads, j \in DOMAIN reads : reads[i] = reads[j]

\* C19: in every timesheet state exactly one of start and stop succeeds: start
\* iff active_period_start is absent, stop iff it is present.  A successful
\* start leaves a persisted state in which only stop succeeds and a successful
\* stop one in which only start succeeds, so successful starts and stops
\* alternate; from the empty timesheet the first success is a start; and in no
\* state do both fail.
C19_StartStopAlternate ==
    /\ \A now \in Instants :
          LET a == cli_start_tracking(time_sheet, now)
              b == cli_stop_tracking(time_sheet, now)
              la == start_tracking(time_sheet, now)
              lb == stop_tracking(time_sheet, now)
          IN  /\ a.changed <=> ~Tracking(time_sheet)
              /\ b.changed <=> Tracking(time_sheet)
              /\ la.ok <=> ~Tracking(time_sheet)
              /\ is_some(lb.ret) <=> Tracking(time_sheet)
              /\ a.changed # b.changed
    /\ Ran("start") => (out.msg = "started" <=> ~Tracking(ts0))
    /\ Ran("stop") => (out.msg = "stopped" <=> Tracking(ts0))
    /\ (pc = "exit" /\ saved) =>
          LET l == load_timesheet(file)
          IN  /\ l.ok
              /\ out.msg = "started" => (~Tracking(ts0) /\ Tracking(l.ts))
              /\ out.msg = "stopped" => (Tracking(ts0) /\ ~Tracking(l.ts))
    /\ (ts0 = DefaultTimeSheet /\ Succeeded) => out.msg = "started"

C19_Witness ==
    /\ pc = "exit" /\ saved /\ out.msg = "started"
    /\ ts0.periods # << >>
    /\ Tracking(load_timesheet(file).ts)
    /\ \A now \in Instants : ~cli_start_tracking(load_timesheet(file).ts, now).changed

\* C20: across sequential invocations the persisted period list is
\* append-only: the list an invocation found is a prefix of the list it
\* leaves (no period removed, altered or moved), and the list grows by exactly
\* one period per successful stop and by none otherwise.
Persisted(f) == load_timesheet(f).ts.periods
IsPrefix(a, b) == Len(a) <= Len(b) /\ SubSeq(b, 1, Len(a)) = a

C20_AppendOnly ==
    pc = "exit" =>
        LET before == Persisted(file0)
            after  == Persisted(file)
        IN  /\ IsPrefix(before, after)
            /\ Len(after) = Len(before) + (IF out.msg = "stopped" THEN 1 ELSE 0)
            /\ out.msg = "stopped" <=> (saved /\ command = "stop")

C20_Witness ==
    /\ pc = "exit" /\ saved /\ command = "stop"
    /\ Len(Persisted(file0)) >= 1
    /\ Len(Persisted(file)) = Len(Persisted(file0)) + 1
    /\ Persisted(file)[Len(Persisted(file))] # Persisted(file)[1]

====
